---- MODULE Spec2Model ----
(***************************************************************************)
(* Model of src/src/remark-section-transform.mjs: the remark plugin that   *)
(* replaces every heading (depth 1-4) and the content that follows it by   *)
(* one mdxJsxFlowElement and stores a nested table of contents in          *)
(* file.data.astro.frontmatter.toc.                                        *)
(*                                                                         *)
(* JavaScript strings are modelled as sequences of one-character strings,  *)
(* JavaScript arrays as sequences, array indices stay 0-based in the       *)
(* operators that model array methods (slice, splice, indexOf).            *)
(***************************************************************************)
EXTENDS Integers, Sequences, FiniteSets, TLC

VARIABLES
    tree,          \* the heap of syntax-tree nodes; node 1 is the root
    data,          \* file.data
    toc,           \* the flat table of contents accumulated by the visitor
    warnings,      \* the calls of console.warn, in order
    stack,         \* the frames of the traversal in progress
    pc,            \* position of the transformer
    thrown,        \* the error that ended the transformer, <<>> when none
    tree0,         \* history: the tree the transformer was given
    data0,         \* history: file.data the transformer was given
    visited,       \* history: the (parent, index, node) of each visitor call
    flatHeadings,  \* argument of a stand-alone call of nestHeadings
    nestOutcome,   \* outcome of that call
    text,          \* argument of a stand-alone call of parseTextWithId
    parsed         \* outcome of that call

vars == <<tree, data, toc, warnings, stack, pc, thrown, tree0, data0, visited,
          flatHeadings, nestOutcome, text, parsed>>

transformVars == <<tree, data, toc, warnings, stack, pc, thrown, tree0, data0, visited>>
nestVars == <<flatHeadings, nestOutcome>>
parseVars == <<text, parsed>>

(***************************************************************************)
(* Bounds of the model.                                                    *)
(***************************************************************************)
MaxNodes == 3      \* nodes of a document below its root
MaxFlat == 5       \* records of a stand-alone nestHeadings argument
MaxText == 6       \* characters of a stand-alone parseTextWithId argument

(***************************************************************************)
(* Characters and the String methods the plugin uses.                      *)
(***************************************************************************)
LowerChars == <<"a","b","c","d","e","f","g","h","i","j","k","l","m",
                "n","o","p","q","r","s","t","u","v","w","x","y","z">>
UpperChars == <<"A","B","C","D","E","F","G","H","I","J","K","L","M",
                "N","O","P","Q","R","S","T","U","V","W","X","Y","Z">>

IsLower(c) == \E i \in DOMAIN LowerChars : LowerChars[i] = c
IsUpper(c) == \E i \in DOMAIN UpperChars : UpperChars[i] = c

\* White space as matched by \s and removed by trim/trimEnd.
IsSpace(c) == c \in {" ", "\t", "\n"}
\* Line terminators: the characters the regular expression's `.` refuses.
IsLineTerminator(c) == c \in {"\n"}

CharToLower(c) ==
    IF IsUpper(c) THEN LowerChars[CHOOSE i \in DOMAIN UpperChars : UpperChars[i] = c]
    ELSE c

toLowerCase(s) == [i \in 1..Len(s) |-> CharToLower(s[i])]

\* String.prototype.trimEnd
trimEnd(s) ==
    LET keep == {n \in 0..Len(s) : \A i \in (n+1)..Len(s) : IsSpace(s[i])}
        n == CHOOSE m \in keep : \A k \in keep : m <= k
    IN SubSeq(s, 1, n)

\* String.prototype.trimStart
trimStart(s) ==
    LET drop == {n \in 0..Len(s) : \A i \in 1..n : IsSpace(s[i])}
        n == CHOOSE m \in drop : \A k \in drop : m >= k
    IN SubSeq(s, n + 1, Len(s))

\* String.prototype.trim
trim(s) == trimStart(trimEnd(s))

(***************************************************************************)
(* _.kebabCase of lodash: the words of the string (runs of letters, split  *)
(* where lower case is followed by upper case and before the last capital  *)
(* of a run of capitals that a lower-case letter follows), lower-cased and *)
(* joined by "-".  Digits and non-ASCII letters are outside the model's    *)
(* alphabet.                                                               *)
(***************************************************************************)
\* Length of the maximal run of characters satisfying the class at position p.
RECURSIVE LowerRun(_, _)
LowerRun(s, p) == IF p <= Len(s) /\ IsLower(s[p]) THEN 1 + LowerRun(s, p + 1) ELSE 0

RECURSIVE UpperRun(_, _)
UpperRun(s, p) == IF p <= Len(s) /\ IsUpper(s[p]) THEN 1 + UpperRun(s, p + 1) ELSE 0

\* Length of the word lodash's word pattern matches at position p (0: none).
WordLenAt(s, p) ==
    LET u == UpperRun(s, p)
        l == LowerRun(s, p + u)
    IN  IF u = 0 THEN l
        ELSE IF l = 0 THEN u
        ELSE IF u = 1 THEN 1 + l
        ELSE u - 1

RECURSIVE WordsFrom(_, _)
WordsFrom(s, p) ==
    IF p > Len(s) THEN <<>>
    ELSE LET n == WordLenAt(s, p)
         IN IF n = 0 THEN WordsFrom(s, p + 1)
            ELSE <<SubSeq(s, p, p + n - 1)>> \o WordsFrom(s, p + n)

words(s) == WordsFrom(s, 1)

RECURSIVE JoinWords(_, _)
JoinWords(ws, index) ==
    IF index > Len(ws) THEN <<>>
    ELSE (IF index > 1 THEN <<"-">> ELSE <<>>) \o toLowerCase(ws[index])
         \o JoinWords(ws, index + 1)

kebabCase(s) == JoinWords(words(s), 1)

(***************************************************************************)
(* text.match(/^(.+?)\s*\(#([^)]+)\)$/)                                    *)
(***************************************************************************)
\* Does \s*\(#([^)]+)\)$ match what follows the first n characters?
SuffixMatchesAfter(s, n) ==
    LET notSpace == {q \in (n+1)..Len(s) : ~IsSpace(s[q])}
    IN  /\ notSpace # {}
        /\ LET q == CHOOSE m \in notSpace : \A k \in notSpace : m <= k
           IN  /\ q + 3 <= Len(s)
               /\ s[q] = "("
               /\ s[q + 1] = "#"
               /\ s[Len(s)] = ")"
               /\ \A i \in (q + 2)..(Len(s) - 1) : s[i] # ")"

\* Position of "(" of the suffix that follows the first n characters.
SuffixStart(s, n) ==
    LET notSpace == {q \in (n+1)..Len(s) : ~IsSpace(s[q])}
    IN CHOOSE m \in notSpace : \A k \in notSpace : m <= k

\* The lengths the lazy group (.+?) can take for the whole pattern to match.
GroupLengths(s) ==
    {n \in 1..Len(s) : /\ \A i \in 1..n : ~IsLineTerminator(s[i])
                       /\ SuffixMatchesAfter(s, n)}

\* The match array: <<>> for null, else <<whole match, group 1, group 2>>.
RegExpMatch(s) ==
    IF GroupLengths(s) = {} THEN <<>>
    ELSE LET n == CHOOSE m \in GroupLengths(s) : \A k \in GroupLengths(s) : m <= k
         IN <<s, SubSeq(s, 1, n), SubSeq(s, SuffixStart(s, n) + 2, Len(s) - 1)>>

parseTextWithId(s) ==
    LET match == RegExpMatch(s)
    IN  IF match # <<>>
        THEN [title |-> trim(match[2]), id |-> match[3]]
        ELSE [title |-> s, id |-> kebabCase(s)]

(***************************************************************************)
(* nestHeadings: the flat list of {depth, title, id} to the nested list.   *)
(* The loop builds objects that are shared by reference (an object sits in *)
(* the parents map and in its parent's children array at once), so the     *)
(* loop state holds the objects in creation order and refers to them by    *)
(* number; Materialize reads the finished structure off.                   *)
(***************************************************************************)
SupportedDepth == 4   \* the deepest heading the plugin turns into a section

NoParent == 0         \* `null` of `let parent = null`

\* for (let d = heading.depth - 1; d >= 1; d--) if (parents.has(d)) ...
RECURSIVE FindParent(_, _)
FindParent(parents, d) ==
    IF d < 1 THEN NoParent
    ELSE IF d \in DOMAIN parents THEN parents[d]
    ELSE FindParent(parents, d - 1)

\* A parents.set that also forgets the nodes tracked at greater depths.
MapSetClearingDeeper(parents, depth, nested) ==
    [d \in {e \in DOMAIN parents : e < depth} \cup {depth} |->
        IF d = depth THEN nested ELSE parents[d]]

\* parents.set(depth, nested)
MapSet(parents, depth, nested) ==
    [d \in (DOMAIN parents) \cup {depth} |-> IF d = depth THEN nested ELSE parents[d]]

\* One iteration of `for (const heading of filteredHeadings)`.
NestIteration(st, heading) ==
    LET nested == Len(st.objects) + 1
        objects == Append(st.objects, [heading |-> heading, children |-> <<>>])
        parents == MapSet(st.parents, heading.depth, nested)
        parent == FindParent(parents, heading.depth - 1)
    IN  IF parent # NoParent
        THEN [objects |-> [objects EXCEPT ![parent].children = Append(@, nested)],
              nestedHeadings |-> st.nestedHeadings,
              parents |-> parents]
        ELSE [objects |-> objects,
              nestedHeadings |-> Append(st.nestedHeadings, nested),
              parents |-> parents]

RECURSIVE NestLoop(_, _, _)
NestLoop(st, filteredHeadings, i) ==
    IF i > Len(filteredHeadings) THEN st
    ELSE NestLoop(NestIteration(st, filteredHeadings[i]), filteredHeadings, i + 1)

\* The value of object number n: { ...heading, children: [...] }.
RECURSIVE Materialize(_, _)
Materialize(objects, n) ==
    [depth |-> objects[n].heading.depth,
     title |-> objects[n].heading.title,
     id |-> objects[n].heading.id,
     children |-> [k \in 1..Len(objects[n].children) |->
                      Materialize(objects, objects[n].children[k])]]

IsDepth1(h) == h.depth = 1
\* A filter that keeps the page title among the entries.
KeepsEveryDepth(h) == TRUE
IsNotDepth1(h) == h.depth # 1

\* The loop of nestHeadings run on the records that are not of depth 1.
NestState(flat) ==
    NestLoop([objects |-> <<>>, nestedHeadings |-> <<>>, parents |-> <<>>],
             SelectSeq(flat, IsNotDepth1), 1)

\* The outcome of a call: pending, returned with a value, or threw with a message.
Pending == [state |-> "pending"]
Returned(value) == [state |-> "returned", value |-> value]
Threw(message) == [state |-> "threw", message |-> message]

nestHeadings(flat) ==
    IF Len(flat) = 0 THEN Returned(<<>>)
    ELSE LET depth1Headings == SelectSeq(flat, IsDepth1)
         IN  IF Len(depth1Headings) = 0
             THEN Threw(<<"No heading of depth 1 found">>)
             ELSE IF Len(depth1Headings) > 1
             THEN Threw(<<"Found ", Len(depth1Headings),
                          " headings of depth 1, expected exactly 1">>)
             ELSE LET st == NestState(flat)
                  IN Returned([k \in 1..Len(st.nestedHeadings) |->
                                  Materialize(st.objects, st.nestedHeadings[k])])

(***************************************************************************)
(* The syntax tree.  A node is a record; `children` holds the numbers of   *)
(* its block-level children in the heap `tree`, `inline` the inline        *)
(* children of a heading (phrasing content: never a heading, never a       *)
(* parent of one).                                                         *)
(***************************************************************************)
Root == 1
NoNode == 0           \* `undefined` where a node is expected

Node(type, depth, inline, children) ==
    [type |-> type, depth |-> depth, inline |-> inline, children |-> children,
     name |-> "", attributes |-> <<>>]

\* Array.prototype.indexOf: 0-based, -1 when absent.
indexOf(array, x) ==
    IF \E i \in 1..Len(array) : array[i] = x
    THEN (CHOOSE i \in 1..Len(array) :
             array[i] = x /\ \A j \in 1..(i - 1) : array[j] # x) - 1
    ELSE -1

\* Array.prototype.slice(start, end), 0-based, end exclusive, both within the array.
slice(array, start, end) == SubSeq(array, start + 1, end)

\* Array.prototype.slice(start): to the end of the array.
sliceFrom(array, start) == SubSeq(array, start + 1, Len(array))

\* A splice that removes one element more than asked.
spliceOneMore(array, start, deleteCount, item) ==
    SubSeq(array, 1, start) \o <<item>> \o SubSeq(array, start + deleteCount + 2, Len(array))

\* Array.prototype.splice(start, deleteCount, item): the array afterwards.
splice(array, start, deleteCount, item) ==
    SubSeq(array, 1, start) \o <<item>> \o SubSeq(array, start + deleteCount + 1, Len(array))

\* The test of the traversal: node => node.type === 'heading' && 1 <= node.depth <= 4
IsSectionHeading(node) ==
    node.type = "heading" /\ node.depth >= 1 /\ node.depth <= SupportedDepth

\* An end test that forgets export nodes.
isEndAtHeadingOnly(node) == node.type = "heading"

\* const isEnd = node => node.type === 'heading' || node.type === 'export'
isEnd(node) == node.type = "heading" \/ node.type = "export"

\* findAfter(parent, start, isEnd) of unist-util-find-after: the first child after
\* `start` that passes isEnd, NoNode when there is none.
findAfter(t, parent, start) ==
    LET children == t[parent].children
        from == indexOf(children, start) + 1
        hits == {i \in (from + 1)..Len(children) : isEnd(t[children[i]])}
    IN  IF hits = {} THEN NoNode
        ELSE children[CHOOSE i \in hits : \A j \in hits : i <= j]

RECURSIVE JoinStrings(_, _)
JoinStrings(strings, i) ==
    IF i > Len(strings) THEN <<>> ELSE strings[i] \o JoinStrings(strings, i + 1)

IsTextNode(child) == child.type = "text"

\* headingNode.children.filter(child => child.type === 'text').map(child => child.value).join('')
extractTextFromHeading(headingNode) ==
    LET texts == SelectSeq(headingNode.inline, IsTextNode)
    IN JoinStrings([i \in 1..Len(texts) |-> texts[i].value], 1)

ComponentMap == <<"Section", "SubSection", "SubSubSection", "SubSubSubSection">>

getComponentNameForDepth(depth) ==
    IF depth \in DOMAIN ComponentMap
    THEN Returned(ComponentMap[depth])
    ELSE Threw(<<"BUG: Unexpected heading depth ", depth,
                 " encountered in remark-section-transform plugin.">>)

\* The text of the console.warn call for a depth-1 heading.
Warning(title, id) ==
    <<"WARNING:Section with title", title, "will be given the generic id",
      "page_title", "instead of the custom id", id>>

\* parent.children.slice(startIndex, endIndex > 0 ? endIndex : undefined)
Between(t, parent, start, startIndex) ==
    LET end == findAfter(t, parent, start)
        endIndex == indexOf(t[parent].children, end)
    IN  IF endIndex > 0 THEN slice(t[parent].children, startIndex, endIndex)
        ELSE sliceFrom(t[parent].children, startIndex)

\* The attributes array of the section component.
Attributes(title, id) ==
    <<[type |-> "mdxJsxAttribute", name |-> "title", value |-> title],
      [type |-> "mdxJsxAttribute", name |-> "id", value |-> id]>>

\* A record that carries the id in place of the title.
TocRecordWithIdAsTitle(depth, title, id) == [depth |-> depth, title |-> id, id |-> id]

\* The record pushed to the table of contents.
TocRecord(depth, title, id) == [depth |-> depth, title |-> title, id |-> id]

\* A warning for the headings of every depth.
WarnsAtAnyDepth(depth) == depth >= 1

\* Whether the visitor warns about this depth.
WarnsAt(depth) == depth = 1

\* sectionizeToComponent(node, index, parent, toc): the tree, the table of contents
\* and the warnings afterwards, and the error it throws, if any.
sectionizeToComponent(t, node, index, parent, tc, warns) ==
    LET start == node
        startIndex == index
        depth == t[start].depth
        between == Between(t, parent, start, startIndex)
        txt == trimEnd(extractTextFromHeading(t[start]))
        p == parseTextWithId(txt)
        warned == IF WarnsAt(depth) THEN Append(warns, Warning(p.title, p.id)) ELSE warns
        contentWithoutHeading == sliceFrom(between, 1)
        componentName == getComponentNameForDepth(depth)
        sectionComponent == Len(t) + 1
    IN  IF componentName.state = "threw"
        THEN [tree |-> t, toc |-> tc, warnings |-> warned, thrown |-> componentName.message]
        ELSE [tree |-> Append([t EXCEPT ![parent].children =
                                   splice(@, startIndex, Len(between), sectionComponent)],
                              [type |-> "mdxJsxFlowElement", depth |-> 0, inline |-> <<>>,
                               children |-> contentWithoutHeading,
                               name |-> componentName.value,
                               attributes |-> Attributes(p.title, p.id)]),
              toc |-> Append(tc, TocRecord(depth, p.title, p.id)),
              warnings |-> warned,
              thrown |-> <<>>]

(***************************************************************************)
(* file.data: an object is a function from its field names.                *)
(***************************************************************************)
Has(object, key) == key \in DOMAIN object

Put(object, key, value) ==
    [k \in (DOMAIN object) \cup {key} |-> IF k = key THEN value ELSE object[k]]

EmptyObject == <<>>

\* if (!file.data.astro) file.data.astro = {}
EnsureAstro(d) == IF Has(d, "astro") THEN d ELSE Put(d, "astro", EmptyObject)

\* An unconditional file.data.astro.frontmatter = {}.
ResetFrontmatter(d) == Put(d, "astro", Put(d.astro, "frontmatter", EmptyObject))

\* if (!file.data.astro.frontmatter) file.data.astro.frontmatter = {}
EnsureFrontmatter(d) ==
    IF Has(d.astro, "frontmatter") THEN d
    ELSE Put(d, "astro", Put(d.astro, "frontmatter", EmptyObject))

\* file.data.astro.frontmatter.toc = value
SetToc(d, value) ==
    Put(d, "astro", Put(d.astro, "frontmatter", Put(d.astro.frontmatter, "toc", value)))

(***************************************************************************)
(* The documents the transformer is run on: up to MaxNodes nodes below the *)
(* root, listed in document order; a node marked `inside` is a child of    *)
(* the nearest blockquote before it.                                       *)
(***************************************************************************)
TextNode(value) == [type |-> "text", value |-> value]
EmphasisNode == [type |-> "emphasis", value |-> <<>>]

\* The inline children of the headings of the documents, by depth.
HeadingInline(depth) ==
    CASE depth = 1 -> <<TextNode(<<"T", " ", "(", "#", "x", ")", " ">>)>>
      [] depth = 2 -> <<TextNode(<<"A", "b">>), EmphasisNode, TextNode(<<" ", "c">>)>>
      [] depth = 3 -> <<TextNode(<<"B">>)>>
      [] depth = 4 -> <<TextNode(<<"C", "(", "#", "y", ")">>)>>
      [] OTHER -> <<TextNode(<<"D">>)>>

DocDepths == 1..(SupportedDepth + 1)

LeafKinds ==
    {Node("heading", d, HeadingInline(d), <<>>) : d \in DocDepths}
        \cup {Node("paragraph", 0, <<>>, <<>>), Node("export", 0, <<>>, <<>>)}

Blockquote == Node("blockquote", 0, <<>>, <<>>)

Listings ==
    UNION {{l \in [1..n -> [kind : LeafKinds \cup {Blockquote}, inside : BOOLEAN]] :
               \A i \in 1..n :
                   l[i].inside =>
                       /\ l[i].kind # Blockquote
                       /\ i > 1
                       /\ (l[i - 1].kind = Blockquote \/ l[i - 1].inside)} :
           n \in 0..MaxNodes}

\* The nodes of a listing that are children of the blockquote at position i.
InsideOf(l, i) ==
    {j \in (i + 1)..Len(l) : \A k \in (i + 1)..j : l[k].inside}

RECURSIVE Ascending(_)
Ascending(S) ==
    IF S = {} THEN <<>>
    ELSE LET m == CHOOSE x \in S : \A y \in S : x <= y
         IN <<m>> \o Ascending(S \ {m})

\* The heap of a listing: the root, then the listed nodes in document order.
HeapOf(l) ==
    [n \in 1..(Len(l) + 1) |->
        IF n = Root
        THEN Node("root", 0, <<>>,
                  [k \in 1..Len(Ascending({j \in 1..Len(l) : ~l[j].inside})) |->
                      Ascending({j \in 1..Len(l) : ~l[j].inside})[k] + 1])
        ELSE IF l[n - 1].kind = Blockquote
        THEN Node("blockquote", 0, <<>>,
                  [k \in 1..Cardinality(InsideOf(l, n - 1)) |-> n + k])
        ELSE l[n - 1].kind]

\* file.data as earlier passes may have left it.
OldToc == <<[depth |-> 2, title |-> <<"O">>, id |-> <<"o">>, children |-> <<>>]>>

DataInputs ==
    {EmptyObject,
     [astro |-> [imagePaths |-> <<"i">>]],
     [astro |-> [imagePaths |-> <<"i">>,
                 frontmatter |-> [title |-> <<"P">>, toc |-> OldToc]]]}

(***************************************************************************)
(* The transformer returned by remarkSectionTransform.                     *)
(***************************************************************************)
Top == stack[Len(stack)]

\* The child the traversal is about to visit.
Current == tree[Top.node].children[Top.offset + 1]

Init ==
    /\ \E l \in Listings : tree = HeapOf(l)
    /\ tree0 = tree
    /\ data \in DataInputs
    /\ data0 = data
    /\ toc = <<>>
    /\ warnings = <<>>
    /\ stack = <<>>
    /\ visited = <<>>
    /\ pc = "start"
    /\ thrown = <<>>
    /\ flatHeadings = <<>>
    /\ nestOutcome = Pending
    /\ text = <<>>
    /\ parsed = Pending

\* Lines 19-29 and the start of visit(tree, ...): the root is no heading, the
\* traversal turns to its children.
Start ==
    /\ pc = "start"
    /\ toc' = <<>>
    /\ data' = EnsureFrontmatter(EnsureAstro(data))
    /\ stack' = <<[node |-> Root, offset |-> 0]>>
    /\ pc' = "visit"
    /\ UNCHANGED <<tree, warnings, thrown, tree0, data0, visited, nestVars, parseVars>>

\* The traversal reaches a child that passes the test: the visitor runs, the
\* heading's inline children hold nothing to visit, the traversal moves to the
\* next index of the parent.
VisitHeading ==
    /\ pc = "visit"
    /\ Top.offset < Len(tree[Top.node].children)
    /\ IsSectionHeading(tree[Current])
    /\ LET r == sectionizeToComponent(tree, Current, Top.offset, Top.node, toc, warnings)
       IN  /\ tree' = r.tree
           /\ toc' = r.toc
           /\ warnings' = r.warnings
           /\ thrown' = r.thrown
           /\ pc' = IF r.thrown = <<>> THEN "visit" ELSE "threw"
    /\ visited' = Append(visited, [parent |-> Top.node, index |-> Top.offset, node |-> Current])
    /\ stack' = [stack EXCEPT ![Len(stack)].offset = @ + 1]
    /\ UNCHANGED <<data, tree0, data0, nestVars, parseVars>>

\* The traversal reaches a child that fails the test: it descends into the
\* child's children when it has any, and moves to the next index otherwise.
VisitOther ==
    /\ pc = "visit"
    /\ Top.offset < Len(tree[Top.node].children)
    /\ ~IsSectionHeading(tree[Current])
    /\ stack' = LET advanced == [stack EXCEPT ![Len(stack)].offset = @ + 1]
                IN  IF Len(tree[Current].children) > 0
                    THEN Append(advanced, [node |-> Current, offset |-> 0])
                    ELSE advanced
    /\ UNCHANGED <<tree, data, toc, warnings, pc, thrown, tree0, data0, visited,
                   nestVars, parseVars>>

\* The loop over a parent's children ends: back to the parent's parent, or,
\* at the root, on to line 40.
Leave ==
    /\ pc = "visit"
    /\ Top.offset >= Len(tree[Top.node].children)
    /\ stack' = SubSeq(stack, 1, Len(stack) - 1)
    /\ pc' = IF Len(stack) = 1 THEN "nest" ELSE "visit"
    /\ UNCHANGED <<tree, data, toc, warnings, thrown, tree0, data0, visited,
                   nestVars, parseVars>>

\* file.data.astro.frontmatter.toc = nestHeadings(toc), nestHeadings returning.
StoreToc ==
    /\ pc = "nest"
    /\ nestHeadings(toc).state = "returned"
    /\ data' = SetToc(data, nestHeadings(toc).value)
    /\ pc' = "done"
    /\ UNCHANGED <<tree, toc, warnings, stack, thrown, tree0, data0, visited,
                   nestVars, parseVars>>

\* The same line, nestHeadings throwing: the transformer ends with its error.
NestThrows ==
    /\ pc = "nest"
    /\ nestHeadings(toc).state = "threw"
    /\ thrown' = nestHeadings(toc).message
    /\ pc' = "threw"
    /\ UNCHANGED <<tree, data, toc, warnings, stack, tree0, data0, visited,
                   nestVars, parseVars>>

Next == Start \/ VisitHeading \/ VisitOther \/ Leave \/ StoreToc \/ NestThrows

Spec == Init /\ [][Next]_vars

(***************************************************************************)
(* Stand-alone calls of the two pure functions.                            *)
(***************************************************************************)
Digits == <<"1","2","3","4","5","6","7","8","9">>

\* The records of a stand-alone call: any depths, title and id naming the position.
FlatInputs ==
    UNION {{[i \in 1..n |-> [depth |-> ds[i],
                             title |-> <<"T", Digits[i]>>,
                             id |-> <<"t", Digits[i]>>]] :
               ds \in [1..n -> 1..SupportedDepth]} : n \in 0..MaxFlat}

Alphabet == {"a", "B", " ", "\n", "(", "#", ")"}

\* The two texts the documentation gives, and a heading of two lines with an id.
Overview == <<"O","v","e","r","v","i","e","w"," ","(","#","c","u","s","t","o","m","-","i","d",")">>
MyGreatSection == <<"M","y"," ","G","r","e","a","t"," ","S","e","c","t","i","o","n">>
TwoLines == <<"A","b","\n","c"," ","(","#","x",")">>

TextInputs ==
    {Overview, MyGreatSection, TwoLines} \cup UNION {[1..n -> Alphabet] : n \in 0..MaxText}

Idle ==
    /\ tree = <<>> /\ tree0 = <<>> /\ data = <<>> /\ data0 = <<>>
    /\ toc = <<>> /\ warnings = <<>> /\ stack = <<>> /\ visited = <<>>
    /\ pc = "idle" /\ thrown = <<>>

InitNest ==
    /\ Idle
    /\ flatHeadings \in FlatInputs
    /\ nestOutcome = Pending
    /\ text = <<>>
    /\ parsed = Pending

CallNestHeadings ==
    /\ pc = "idle"
    /\ nestOutcome.state = "pending"
    /\ nestOutcome' = nestHeadings(flatHeadings)
    /\ UNCHANGED <<flatHeadings, transformVars, parseVars>>

SpecNest == InitNest /\ [][CallNestHeadings]_vars

InitParse ==
    /\ Idle
    /\ flatHeadings = <<>>
    /\ nestOutcome = Pending
    /\ text \in TextInputs
    /\ parsed = Pending

CallParseTextWithId ==
    /\ pc = "idle"
    /\ parsed.state = "pending"
    /\ parsed' = [state |-> "returned", value |-> parseTextWithId(text)]
    /\ UNCHANGED <<text, transformVars, nestVars>>

SpecParse == InitParse /\ [][CallParseTextWithId]_vars

(***************************************************************************)
(* Vocabulary of the properties.                                           *)
(***************************************************************************)
Finished == pc \in {"nest", "done", "threw"}

\* The headings of the given document the plugin is to turn into sections.
OrigHeadings ==
    {n \in 1..Len(tree0) : tree0[n].type = "heading" /\ tree0[n].depth \in 1..4}

\* The section components created so far, in creation order.
BlockIds == (Len(tree0) + 1)..Len(tree)

IsBlock(n) == n > Len(tree0)

\* The heading the block b replaced.
ReplacedBy(b) == visited[b - Len(tree0)].node

\* The nodes below the listed ones, in document order.
RECURSIVE Preorder(_, _)
Preorder(t, nodes) ==
    IF nodes = <<>> THEN <<>>
    ELSE <<Head(nodes)>> \o Preorder(t, t[Head(nodes)].children) \o Preorder(t, Tail(nodes))

\* The listed nodes with every section component replaced by its children.
RECURSIVE ExpandBlocks(_, _)
ExpandBlocks(t, nodes) ==
    IF nodes = <<>> THEN <<>>
    ELSE (IF IsBlock(Head(nodes)) THEN ExpandBlocks(t, t[Head(nodes)].children)
          ELSE <<Head(nodes)>>) \o ExpandBlocks(t, Tail(nodes))

Processed == {visited[k].node : k \in 1..Len(visited)}

IsUnprocessed(n) == n \notin Processed

Min(S) == CHOOSE x \in S : \A y \in S : x <= y
Max(S) == CHOOSE x \in S : \A y \in S : x >= y

\* The value of the attribute of a section component.
AttributeOf(node, name) ==
    LET hits == {i \in 1..Len(node.attributes) : node.attributes[i].name = name}
    IN node.attributes[Min(hits)].value

\* The depths of a list of records.
DepthsOf(records) == [i \in 1..Len(records) |-> records[i].depth]

(***************************************************************************)
(* C1.  For a document whose headings all have a depth in 1..4, wherever   *)
(* they sit in the tree, the finished traversal has produced one section   *)
(* component per heading of the document, and the components stand in the  *)
(* document in the order of the headings they replace.                     *)
(***************************************************************************)
C1_EveryHeadingSectioned ==
    Finished =>
        LET blocks == SelectSeq(Preorder(tree, <<Root>>), IsBlock)
        IN  /\ Cardinality(BlockIds) = Cardinality(OrigHeadings)
            /\ [k \in 1..Len(blocks) |-> ReplacedBy(blocks[k])] = Ascending(OrigHeadings)

(***************************************************************************)
(* C2.  A visitor call on the heading at index i of its parent produces a  *)
(* component whose children are the siblings at i+1..j-1 in their order,   *)
(* j being the index of the first sibling after i of type heading (of any  *)
(* depth) or export, or the end of the parent when there is none.          *)
(***************************************************************************)
C2_ChildrenAreSpanToBoundary ==
    [][Len(tree') > Len(tree) =>
        LET siblings == tree[Top.node].children
            i == Top.offset + 1
            boundaries == {j \in (i + 1)..Len(siblings) :
                              tree[siblings[j]].type \in {"heading", "export"}}
            j == IF boundaries = {} THEN Len(siblings) + 1 ELSE Min(boundaries)
        IN  /\ Len(tree') = Len(tree) + 1
            /\ tree'[Len(tree')].children = SubSeq(siblings, i + 1, j - 1)]_vars

\* A component that absorbed content up to an export node, one that absorbed
\* the rest of its parent, and an empty one in front of another heading's component.
C2_Witness ==
    /\ Finished
    /\ \E b \in BlockIds, k \in 1..Len(tree[Root].children) :
          /\ tree[Root].children[k] = b
          /\ Len(tree[b].children) >= 1
          /\ k < Len(tree[Root].children)
          /\ tree[tree[Root].children[k + 1]].type = "export"

(***************************************************************************)
(* C3.  nestHeadings throws exactly when its argument is non-empty and     *)
(* does not hold exactly one record of depth 1 (with the count in the      *)
(* message when there are several), and returns [] for the empty list; so  *)
(* the transformer stores [] for a document without a heading of depth     *)
(* 1..4 and aborts for a document with such headings of which not exactly  *)
(* one has depth 1.                                                        *)
(***************************************************************************)
C3_AbortsUnlessOneTitle ==
    (pc \in {"done", "threw"}) =>
        LET titles == {n \in OrigHeadings : tree0[n].depth = 1}
            ones == Len(SelectSeq(toc, LAMBDA h : h.depth = 1))
        IN  /\ (pc = "threw") <=> (toc # <<>> /\ ones # 1)
            /\ (pc = "threw" /\ ones = 0) => thrown = <<"No heading of depth 1 found">>
            /\ (pc = "threw" /\ ones > 1) => thrown[2] = ones
            /\ OrigHeadings = {} => (pc = "done" /\ data.astro.frontmatter.toc = <<>>)
            /\ (OrigHeadings # {} /\ Cardinality(titles) # 1) => pc = "threw"

\* The position of the parent of the record at position i, 0 for a root.
ExpectedParent(flat, i) ==
    LET shallower == {j \in 1..(i - 1) : flat[j].depth # 1 /\ flat[j].depth < flat[i].depth}
    IN  IF shallower = {} THEN 0
        ELSE LET d == Max({flat[j].depth : j \in shallower})
             IN Max({j \in shallower : flat[j].depth = d})

RECURSIVE ExpectedNode(_, _)
ExpectedNode(flat, i) ==
    LET kids == Ascending({j \in (i + 1)..Len(flat) :
                              flat[j].depth # 1 /\ ExpectedParent(flat, j) = i})
    IN [depth |-> flat[i].depth, title |-> flat[i].title, id |-> flat[i].id,
        children |-> [k \in 1..Len(kids) |-> ExpectedNode(flat, kids[k])]]

ExpectedForest(flat) ==
    LET roots == Ascending({j \in 1..Len(flat) :
                               flat[j].depth # 1 /\ ExpectedParent(flat, j) = 0})
    IN [k \in 1..Len(roots) |-> ExpectedNode(flat, roots[k])]

Leaf(record) == [depth |-> record.depth, title |-> record.title, id |-> record.id,
                 children |-> <<>>]

(***************************************************************************)
(* C4.  nestHeadings attaches each record that is not of depth 1, in input *)
(* order, to the most recent node of the greatest depth below its own that *)
(* has a node so far, and makes it a root when there is none; a node of    *)
(* depth d replaces only the tracked node of depth d.  Depths 1,2,3,2,4    *)
(* put the depth-4 record under the depth-3 node; 1,2(a),3(b),2(c) gives   *)
(* [a with child b, c].                                                    *)
(***************************************************************************)
C4_ParentIsNearestShallower ==
    nestOutcome.state = "returned" =>
        /\ nestOutcome.value = ExpectedForest(flatHeadings)
        /\ DepthsOf(flatHeadings) = <<1, 2, 3, 2, 4>> =>
              /\ Len(nestOutcome.value) = 2
              /\ nestOutcome.value[1].children[1].children = <<Leaf(flatHeadings[5])>>
              /\ nestOutcome.value[2] = Leaf(flatHeadings[4])
        /\ DepthsOf(flatHeadings) = <<1, 2, 3, 2>> =>
              nestOutcome.value =
                  <<[Leaf(flatHeadings[2]) EXCEPT !.children = <<Leaf(flatHeadings[3])>>],
                    Leaf(flatHeadings[4])>>

C4_Witness ==
    /\ nestOutcome.state = "returned"
    /\ DepthsOf(flatHeadings) = <<1, 2, 3, 2, 4>>

RECURSIVE NodesOf(_)
NodesOf(forest) ==
    IF forest = <<>> THEN <<>>
    ELSE <<Head(forest)>> \o NodesOf(Head(forest).children) \o NodesOf(Tail(forest))

Strip(node) == [depth |-> node.depth, title |-> node.title, id |-> node.id]

\* The position of the record a node was made from (ids name positions).
PositionOf(flat, node) == Min({i \in 1..Len(flat) : flat[i].id = node.id})

InInputOrder(flat, nodes) ==
    \A a, b \in 1..Len(nodes) :
        a < b => PositionOf(flat, nodes[a]) < PositionOf(flat, nodes[b])

(***************************************************************************)
(* C5.  For an argument with exactly one record of depth 1 the forest      *)
(* nestHeadings returns holds no node for that record and exactly one node *)
(* for each other record, with its depth, title and id; roots and children *)
(* are in input order; every child is deeper than its parent.              *)
(***************************************************************************)
C5_ForestHoldsEachRecordOnce ==
    (nestOutcome.state # "pending"
        /\ Len(SelectSeq(flatHeadings, LAMBDA h : h.depth = 1)) = 1) =>
        /\ nestOutcome.state = "returned"
        /\ LET nodes == NodesOf(nestOutcome.value)
               others == SelectSeq(flatHeadings, LAMBDA h : h.depth # 1)
           IN  /\ \A k \in 1..Len(nodes) : nodes[k].depth # 1
               /\ Len(nodes) = Len(others)
               /\ {Strip(nodes[k]) : k \in 1..Len(nodes)} = {others[k] : k \in 1..Len(others)}
               /\ InInputOrder(flatHeadings, nestOutcome.value)
               /\ \A k \in 1..Len(nodes) :
                     /\ InInputOrder(flatHeadings, nodes[k].children)
                     /\ \A c \in 1..Len(nodes[k].children) :
                           nodes[k].children[c].depth > nodes[k].depth

\* Two roots, the first with two children.
C5_Witness ==
    /\ nestOutcome.state = "returned"
    /\ Len(nestOutcome.value) = 2
    /\ Len(nestOutcome.value[1].children) = 2

\* The ways to read s as title (n characters), white space, "(#", id, ")".
Readings(s) ==
    {r \in (1..Len(s)) \X (1..Len(s)) :
        /\ r[1] < r[2]
        /\ \A i \in (r[1] + 1)..(r[2] - 1) : IsSpace(s[i])
        /\ r[2] + 3 <= Len(s)
        /\ s[r[2]] = "(" /\ s[r[2] + 1] = "#" /\ s[Len(s)] = ")"
        /\ \A i \in (r[2] + 2)..(Len(s) - 1) : s[i] # ")"}

Letters(s) == SelectSeq(s, LAMBDA c : IsLower(c) \/ IsUpper(c))
WithoutHyphens(s) == SelectSeq(s, LAMBDA c : c # "-")

\* Lower-case words joined by single hyphens, spelling the letters of s.
IsSlugOf(id, s) ==
    /\ \A i \in 1..Len(id) : IsLower(id[i]) \/ id[i] = "-"
    /\ id # <<>> => (id[1] # "-" /\ id[Len(id)] # "-")
    /\ \A i \in 1..(Len(id) - 1) : ~(id[i] = "-" /\ id[i + 1] = "-")
    /\ WithoutHyphens(id) = toLowerCase(Letters(s))

(***************************************************************************)
(* C6.  parseTextWithId: a text made of at least one character of title,   *)
(* optional white space and a final "(#id)" with a non-empty id free of    *)
(* ")" gives the trimmed title and the id; any other text gives itself as  *)
(* title and its kebab-case slug (lower-case words joined by single        *)
(* hyphens) as id.                                                         *)
(***************************************************************************)
C6_ParseSplitsIdSuffix ==
    parsed.state = "returned" =>
        /\ text = Overview =>
              parsed.value = [title |-> SubSeq(Overview, 1, 8), id |-> SubSeq(Overview, 12, 20)]
        /\ text = MyGreatSection =>
              parsed.value =
                  [title |-> MyGreatSection,
                   id |-> <<"m","y","-","g","r","e","a","t","-","s","e","c","t","i","o","n">>]
        /\ IF Readings(text) # {}
           THEN \E r \in Readings(text) :
                   parsed.value = [title |-> trim(SubSeq(text, 1, r[1])),
                                   id |-> SubSeq(text, r[2] + 2, Len(text) - 1)]
           ELSE parsed.value.title = text /\ IsSlugOf(parsed.value.id, text)

ExpectedToc(flat) == IF flat = <<>> THEN <<>> ELSE ExpectedForest(flat)

(***************************************************************************)
(* C7.  The transformer creates file.data.astro and its frontmatter only   *)
(* when they are absent; every field of either that an earlier pass set,   *)
(* other than frontmatter.toc, keeps its value; frontmatter.toc is set     *)
(* once, after the traversal, to the nested table of contents.             *)
(***************************************************************************)
C7_MetadataPreserved ==
    pc # "start" =>
        /\ DOMAIN data = (DOMAIN data0) \cup {"astro"}
        /\ \A k \in (DOMAIN data0) \ {"astro"} : data[k] = data0[k]
        /\ LET astro0 == IF Has(data0, "astro") THEN data0.astro ELSE EmptyObject
               fm0 == IF Has(astro0, "frontmatter") THEN astro0.frontmatter ELSE EmptyObject
               fm == data.astro.frontmatter
           IN  /\ DOMAIN data.astro = (DOMAIN astro0) \cup {"frontmatter"}
               /\ \A k \in (DOMAIN astro0) \ {"frontmatter"} : data.astro[k] = astro0[k]
               /\ \A k \in (DOMAIN fm0) \ {"toc"} : Has(fm, k) /\ fm[k] = fm0[k]
               /\ IF pc = "done"
                  THEN /\ DOMAIN fm = (DOMAIN fm0) \cup {"toc"}
                       /\ fm.toc = ExpectedToc(toc)
                  ELSE /\ DOMAIN fm = DOMAIN fm0
                       /\ Has(fm0, "toc") => fm.toc = fm0.toc

\* A finished run on metadata an earlier pass filled, with a new table of contents.
C7_Witness ==
    /\ pc = "done"
    /\ Has(data0, "astro") /\ Has(data0.astro, "frontmatter")
    /\ Len(toc) >= 2
    /\ data.astro.frontmatter.toc # data0.astro.frontmatter.toc

NameOfDepth(depth) ==
    CASE depth = 1 -> "Section"
      [] depth = 2 -> "SubSection"
      [] depth = 3 -> "SubSubSection"
      [] depth = 4 -> "SubSubSubSection"

(***************************************************************************)
(* C8.  The flat table of contents holds one record per heading the        *)
(* visitor processed, in traversal (document) order; the i-th record and   *)
(* the i-th component agree on title and id, and the component's name is   *)
(* the one of the record's depth.                                          *)
(***************************************************************************)
C8_RecordsMatchBlocks ==
    /\ Len(toc) = Len(visited)
    /\ Len(toc) = Cardinality(BlockIds)
    /\ \A i \in 1..Len(toc) :
          LET block == tree[Len(tree0) + i]
          IN  /\ toc[i].depth = tree0[visited[i].node].depth
              /\ block.type = "mdxJsxFlowElement"
              /\ AttributeOf(block, "title") = toc[i].title
              /\ AttributeOf(block, "id") = toc[i].id
              /\ block.name = NameOfDepth(toc[i].depth)
    /\ \A i, j \in 1..Len(visited) : i < j => visited[i].node < visited[j].node
    /\ \A i \in 1..Len(toc) : toc[i].depth = 2 =>
          /\ toc[i].title = <<"A", "b", " ", "c">>
          /\ toc[i].id = <<"a", "b", "-", "c">>

\* Two headings of different depths were processed, the first with a title that
\* differs from its id.
C8_Witness ==
    /\ Finished
    /\ Len(toc) >= 2
    /\ toc[1].depth # toc[2].depth
    /\ toc[1].title # toc[1].id

(***************************************************************************)
(* C9.  A warning is written once per depth-1 heading processed and for no *)
(* other heading; it names the parsed title and id; the heading is         *)
(* sectioned like any other and the traversal goes on.                     *)
(***************************************************************************)
C9_OneWarningPerTitle ==
    LET ones == SelectSeq(toc, LAMBDA h : h.depth = 1)
        firsts == {i \in 1..Len(visited) : tree0[visited[i].node].depth = 1}
    IN  /\ Len(warnings) = Cardinality(firsts)
        /\ Len(warnings) = Len(ones)
        /\ \A k \in 1..Len(warnings) :
              /\ warnings[k][2] = ones[k].title
              /\ warnings[k][6] = ones[k].id
        /\ \A i \in firsts :
              /\ Len(toc) >= i
              /\ tree[Len(tree0) + i].name = "Section"
        /\ (pc = "threw") => thrown[1] \in {"No heading of depth 1 found", "Found "}
        /\ \A n \in OrigHeadings :
              (Finished /\ \E k \in 1..Len(tree0[Root].children) : tree0[Root].children[k] = n)
                  => n \in Processed

\* A depth-1 heading was warned about and a later heading was processed after it.
C9_Witness ==
    /\ pc = "done"
    /\ Len(warnings) = 1
    /\ Len(visited) >= 2
    /\ tree0[visited[1].node].depth = 1

\* The children of parent p in the given document that no heading comes before
\* since the last export, or that are exports or headings of an unsupported depth.
StayDirect(p) ==
    LET c == tree0[p].children
    IN {c[k] : k \in {k \in 1..Len(c) :
           \/ tree0[c[k]].type = "export"
           \/ (tree0[c[k]].type = "heading" /\ tree0[c[k]].depth \notin 1..4)
           \/ /\ tree0[c[k]].type # "heading"
              /\ \/ \A m \in 1..(k - 1) : tree0[c[m]].type # "heading"
                 \/ \E e \in 1..(k - 1) :
                       /\ tree0[c[e]].type = "export"
                       /\ \A m \in (e + 1)..(k - 1) : tree0[c[m]].type # "heading"}}

C10_Frame ==
    /\ \A p \in 1..Len(tree0) :
          /\ ExpandBlocks(tree, tree[p].children) = SelectSeq(tree0[p].children, IsUnprocessed)
          /\ [tree[p] EXCEPT !.children = <<>>] = [tree0[p] EXCEPT !.children = <<>>]
          /\ tree0[p].children = <<>> => tree[p] = tree0[p]
          /\ \A n \in StayDirect(p) : \E k \in 1..Len(tree[p].children) : tree[p].children[k] = n
          /\ SelectSeq(tree[p].children, LAMBDA n : n \in StayDirect(p))
                = SelectSeq(tree0[p].children, LAMBDA n : n \in StayDirect(p))

(***************************************************************************)
(* C10.  A visitor call replaces the heading and its absorbed content by   *)
(* one component at the heading's index and changes nothing else, so a     *)
(* parent's children with the components expanded are its original         *)
(* children without the processed headings; what precedes the first        *)
(* heading, export nodes, what follows an export up to the next heading    *)
(* and headings of a depth outside 1..4 stay direct children.              *)
(***************************************************************************)
C10_SpanReplacedInPlace ==
    [][/\ C10_Frame'
       /\ IF Len(tree') > Len(tree)
          THEN LET p == Top.node
                   i == Top.offset + 1
                   old == tree[p].children
                   b == Len(tree) + 1
                   m == Len(tree'[b].children)
               IN  /\ Len(tree') = b
                   /\ tree[old[i]].type = "heading"
                   /\ tree'[b].children = SubSeq(old, i + 1, i + m)
                   /\ tree'[p].children =
                         SubSeq(old, 1, i - 1) \o <<b>> \o SubSeq(old, i + m + 1, Len(old))
                   /\ \A n \in 1..Len(tree) :
                         tree'[n] = IF n = p THEN [tree[n] EXCEPT !.children = tree'[p].children]
                                    ELSE tree[n]
          ELSE tree' = tree]_vars

\* A section component followed by an export node and by a paragraph that stayed a
\* child of the root.
C10_Witness ==
    /\ Finished
    /\ Len(tree[Root].children) = 3
    /\ IsBlock(tree[Root].children[1])
    /\ tree[tree[Root].children[2]].type = "export"
    /\ tree[tree[Root].children[3]].type = "paragraph"

====
